---- MODULE Spec2Model ----
(***************************************************************************)
(* Model of the decimal library of src/index.ts: the DecimalNumber class   *)
(* (a bigint val and a bigint scale), its toString, the parser             *)
(* toDecimalNumber and the arithmetic decimalAdd / decimalSubtract /       *)
(* decimalMultiply.                                                        *)
(*                                                                         *)
(* A JavaScript string is a sequence of one-character strings; a bigint is *)
(* an integer; a thrown exception is a record with threw = TRUE.          *)
(***************************************************************************)
EXTENDS Integers, Sequences, FiniteSets

VARIABLES
    arg,    \* the argument of toDecimalNumber (of the first call, if two)
    arg2,   \* the argument of the second toDecimalNumber call
    a, b,   \* the DecimalNumber operands
    res,    \* what the last call returned or threw, but for toString
    out,    \* the text toString returned
    calls,  \* the calls completed so far, in order
    heap    \* the DecimalNumber instances constructed so far, oldest first

vars == <<arg, arg2, a, b, res, out, calls, heap>>

(***************************************************************************)
(* Bounds of the explored inputs.                                          *)
(***************************************************************************)
\* operands of the arithmetic have val in -MaxVal..MaxVal
MaxVal == 11
\* ... and scale in 0..MaxScale
MaxScale == 2
\* receivers of toString have val in -MaxFmtVal..MaxFmtVal
MaxFmtVal == 1100
\* ... and scale in 0..MaxFmtScale
MaxFmtScale == 4
\* input texts of the parser have at most MaxLen characters
MaxLen == 4
\* number arguments of the parser are the integers -MaxNum..MaxNum
MaxNum == 12
\* the texts a chain of operations starts from have at most MaxChainLen
\* characters
MaxChainLen == 2
\* a chain has at most MaxOps arithmetic calls
MaxOps == 2
\* the three operands of a compound expression have val in
\* -MaxTripleVal..MaxTripleVal
MaxTripleVal == 2
\* ... and scale in 0..MaxTripleScale
MaxTripleScale == 2

\* the value of a variable that holds nothing yet
None == [none |-> TRUE]

(***************************************************************************)
(* JavaScript built-ins used by the source.                                *)
(***************************************************************************)
DigitChars == <<"0", "1", "2", "3", "4", "5", "6", "7", "8", "9">>

RECURSIVE Pow10(_)
\* 10n ** e; a negative exponent makes the bigint operator ** throw a
\* RangeError, modelled by the value -1 that no power of ten has
Pow10(e) == IF e < 0 THEN -1 ELSE IF e = 0 THEN 1 ELSE 10 * Pow10(e - 1)

RECURSIVE NatToString(_)
\* the decimal digits of a non-negative bigint, most significant first
NatToString(n) ==
    IF n < 10 THEN <<DigitChars[n + 1]>>
    ELSE Append(NatToString(n \div 10), DigitChars[(n % 10) + 1])

\* BigInt.prototype.toString()
BigIntToString(n) == IF n < 0 THEN <<"-">> \o NatToString(-n) ELSE NatToString(n)

RECURSIVE Zeros(_)
Zeros(k) == IF k <= 0 THEN <<>> ELSE <<"0">> \o Zeros(k - 1)

\* String.prototype.padStart(targetLength, "0")
padStart(s, targetLength) == Zeros(targetLength - Len(s)) \o s

\* String.prototype.slice(start, end): a negative index counts from the end
sliceIndex(s, i) == IF i < 0 THEN (IF Len(s) + i < 0 THEN 0 ELSE Len(s) + i)
                    ELSE (IF i > Len(s) THEN Len(s) ELSE i)

slice(s, start, end) ==
    LET from == sliceIndex(s, start)
        to   == sliceIndex(s, end)
    IN  IF from >= to THEN <<>> ELSE SubSeq(s, from + 1, to)

\* String.prototype.slice(start): up to the end of the string
sliceFrom(s, start) == slice(s, start, Len(s))

(***************************************************************************)
(* class DecimalNumber                                                     *)
(***************************************************************************)
\* new DecimalNumber(val, scale): the constructor stores both fields as given
DecimalNumber(val, scale) == [val |-> val, scale |-> scale]

\* const abs = (n) => (n === -0n || n < 0n ? -n : n)
abs(n) == IF n = 0 \/ n < 0 THEN -n ELSE n

\* toString without the padding of the digit string
toString_unpadded(this) ==
    LET strVal      == BigIntToString(abs(this.val))
        sliced      == slice(strVal, 0, -this.scale)
        integerPart == IF sliced = <<>> THEN <<"0">> ELSE sliced
        formattedNumber == integerPart \o <<".">> \o sliceFrom(strVal, -this.scale)
    IN  IF this.val < 0 THEN <<"-">> \o formattedNumber ELSE formattedNumber

\* toString that forgets the sign
toString_unsigned(this) ==
    LET strVal      == padStart(BigIntToString(abs(this.val)), this.scale + 1)
        sliced      == slice(strVal, 0, -this.scale)
        integerPart == IF sliced = <<>> THEN <<"0">> ELSE sliced
    IN  integerPart \o <<".">> \o sliceFrom(strVal, -this.scale)

\* DecimalNumber.prototype.toString
toString(this) ==
    LET val         == this.val
        scale       == this.scale
        isNegative  == val < 0
        absVal      == abs(val)
        strVal      == padStart(BigIntToString(absVal), scale + 1)
        sliced      == slice(strVal, 0, -scale)
        integerPart == IF sliced = <<>> THEN <<"0">> ELSE sliced
        decimalPart == sliceFrom(strVal, -scale)
        formattedNumber == integerPart \o <<".">> \o decimalPart
    IN  IF isNegative THEN <<"-">> \o formattedNumber ELSE formattedNumber

(***************************************************************************)
(* Arithmetic                                                              *)
(***************************************************************************)
\* decimalAdd with the alignment of the smaller-scale operand forgotten
decimalAdd_unaligned(x, y) ==
    LET maxDecimal   == IF x.scale > y.scale THEN x ELSE y
        smallDecimal == IF x.scale > y.scale THEN y ELSE x
    IN  DecimalNumber(maxDecimal.val + smallDecimal.val, maxDecimal.scale)

\* decimalAdd whose two operand choices disagree when the scales are equal
decimalAdd_tie(x, y) ==
    LET maxDecimal   == IF x.scale > y.scale THEN x ELSE y
        smallDecimal == IF x.scale >= y.scale THEN y ELSE x
    IN  DecimalNumber(maxDecimal.val + smallDecimal.val * Pow10(maxDecimal.scale - smallDecimal.scale),
                      maxDecimal.scale)

decimalAdd(x, y) ==
    LET maxDecimal         == IF x.scale > y.scale THEN x ELSE y
        smallDecimal       == IF x.scale > y.scale THEN y ELSE x
        largeDecimalLength == maxDecimal.scale
        smallDecimalLength == smallDecimal.scale
        smallValExtended   == smallDecimal.val * Pow10(largeDecimalLength - smallDecimalLength)
    IN  DecimalNumber(maxDecimal.val + smallValExtended, largeDecimalLength)

\* decimalSubtract with the operands of the second branch swapped
decimalSubtract_flipped(x, y) ==
    LET maxDecimal         == IF x.scale > y.scale THEN x ELSE y
        largeDecimalLength == maxDecimal.scale
    IN  IF x.scale = largeDecimalLength
        THEN DecimalNumber(x.val - y.val * Pow10(largeDecimalLength - y.scale), largeDecimalLength)
        ELSE DecimalNumber(y.val - x.val * Pow10(largeDecimalLength - x.scale), largeDecimalLength)

\* decimalSubtract with the alignment of b forgotten in the first branch
decimalSubtract_unaligned(x, y) ==
    LET maxDecimal         == IF x.scale > y.scale THEN x ELSE y
        largeDecimalLength == maxDecimal.scale
    IN  IF x.scale = largeDecimalLength
        THEN DecimalNumber(x.val - y.val, largeDecimalLength)
        ELSE DecimalNumber(x.val * Pow10(largeDecimalLength - x.scale) - y.val, largeDecimalLength)

\* decimalSubtract that returns the smaller of the two scales
decimalSubtract_minScale(x, y) ==
    LET maxDecimal         == IF x.scale > y.scale THEN x ELSE y
        minDecimal         == IF x.scale > y.scale THEN y ELSE x
        largeDecimalLength == maxDecimal.scale
    IN  DecimalNumber(x.val * Pow10(largeDecimalLength - x.scale)
                          - y.val * Pow10(largeDecimalLength - y.scale),
                      minDecimal.scale)

decimalSubtract(x, y) ==
    LET maxDecimal         == IF x.scale > y.scale THEN x ELSE y
        largeDecimalLength == maxDecimal.scale
    IN  IF x.scale = largeDecimalLength
        THEN LET bExtended == y.val * Pow10(largeDecimalLength - y.scale)
             IN  DecimalNumber(x.val - bExtended, largeDecimalLength)
        ELSE LET aExtended == x.val * Pow10(largeDecimalLength - x.scale)
             IN  DecimalNumber(aExtended - y.val, largeDecimalLength)

\* decimalMultiply with the scale of the aligned sum instead of the sum
decimalMultiply_maxScale(x, y) ==
    DecimalNumber(x.val * y.val, IF x.scale > y.scale THEN x.scale ELSE y.scale)

\* the exponent of the power of ten decimalAdd multiplies by
decimalAddExponent(x, y) ==
    LET maxDecimal   == IF x.scale > y.scale THEN x ELSE y
        smallDecimal == IF x.scale > y.scale THEN y ELSE x
    IN  maxDecimal.scale - smallDecimal.scale

\* the exponent of the power of ten decimalSubtract multiplies by
decimalSubtractExponent(x, y) ==
    LET maxDecimal         == IF x.scale > y.scale THEN x ELSE y
        largeDecimalLength == maxDecimal.scale
    IN  IF x.scale = largeDecimalLength
        THEN largeDecimalLength - y.scale
        ELSE largeDecimalLength - x.scale

decimalMultiply(x, y) ==
    LET resultValue == x.val * y.val
        resultScale == x.scale + y.scale
    IN  DecimalNumber(resultValue, resultScale)

(***************************************************************************)
(* toDecimalNumber                                                         *)
(***************************************************************************)
\* an argument of type string / of type number (finite integer, NaN or an
\* infinity)
StringArg(s) == [type |-> "string", s |-> s, kind |-> "string", n |-> 0]

NumberArg(n) == [type |-> "number", s |-> <<>>, kind |-> "finite", n |-> n]

NonFiniteArg(k) == [type |-> "number", s |-> <<>>, kind |-> k, n |-> 0]

\* arg.toString(): a string is returned as it is, a number is printed by
\* Number.prototype.toString
argToString(x) ==
    IF x.type = "string" THEN x.s
    ELSE IF x.kind = "NaN" THEN <<"N", "a", "N">>
    ELSE IF x.kind = "Infinity" THEN <<"I", "n", "f", "i", "n", "i", "t", "y">>
    ELSE IF x.kind = "-Infinity" THEN <<"-", "I", "n", "f", "i", "n", "i", "t", "y">>
    ELSE BigIntToString(x.n)

RECURSIVE split(_, _)
\* String.prototype.split(separator) for a one-character separator: the
\* pieces between the occurrences of the separator, always at least one
split(s, sep) ==
    IF \A i \in 1..Len(s) : s[i] # sep THEN <<s>>
    ELSE LET k == CHOOSE i \in 1..Len(s) : s[i] = sep /\ \A j \in 1..(i - 1) : s[j] # sep
         IN  <<SubSeq(s, 1, k - 1)>> \o split(SubSeq(s, k + 1, Len(s)), sep)

RECURSIVE trimStart(_)
trimStart(s) == IF s # <<>> /\ Head(s) = " " THEN trimStart(Tail(s)) ELSE s

RECURSIVE trimEnd(_)
trimEnd(s) == IF s # <<>> /\ s[Len(s)] = " " THEN trimEnd(SubSeq(s, 1, Len(s) - 1)) ELSE s

RadixChars == <<"0", "1", "2", "3", "4", "5", "6", "7", "8", "9", "a", "b", "c", "d", "e", "f">>

IsRadixDigit(c, radix) == \E i \in 1..radix : RadixChars[i] = c

RadixDigitVal(c) == (CHOOSE i \in 1..16 : RadixChars[i] = c) - 1

RECURSIVE DigitsToNat(_, _)
\* the number a run of digits denotes in the given radix
DigitsToNat(s, radix) ==
    IF s = <<>> THEN 0
    ELSE DigitsToNat(SubSeq(s, 1, Len(s) - 1), radix) * radix + RadixDigitVal(s[Len(s)])

AllRadixDigits(s, radix) == s # <<>> /\ \A i \in 1..Len(s) : IsRadixDigit(s[i], radix)

PrefixRadix(c) == IF c = "x" THEN 16 ELSE IF c = "o" THEN 8 ELSE IF c = "b" THEN 2 ELSE 0

Returned(v) == [threw |-> FALSE, value |-> v]

Threw(name, message) == [threw |-> TRUE, name |-> name, message |-> message]

\* BigInt(string): StringToBigInt. White space around the literal is dropped,
\* the empty literal is 0n, a decimal literal may carry a sign, a literal with
\* a 0x / 0o / 0b prefix may not, and anything else is a SyntaxError
BigIntOfString(str) ==
    LET t == trimEnd(trimStart(str))
    IN  IF t = <<>> THEN Returned(0)
        ELSE IF AllRadixDigits(t, 10) THEN Returned(DigitsToNat(t, 10))
        ELSE IF Head(t) = "-" /\ AllRadixDigits(Tail(t), 10)
             THEN Returned(-DigitsToNat(Tail(t), 10))
        ELSE IF Head(t) = "+" /\ AllRadixDigits(Tail(t), 10)
             THEN Returned(DigitsToNat(Tail(t), 10))
        ELSE IF Len(t) >= 3 /\ t[1] = "0" /\ PrefixRadix(t[2]) # 0
                /\ AllRadixDigits(SubSeq(t, 3, Len(t)), PrefixRadix(t[2]))
             THEN Returned(DigitsToNat(SubSeq(t, 3, Len(t)), PrefixRadix(t[2])))
        ELSE Threw("SyntaxError", <<str, "cannot be converted to a BigInt">>)

\* toDecimalNumber with the scale taken from the integer part
toDecimalNumber_scaleOfInteger(x) ==
    LET num   == argToString(x)
        parts == split(num, ".")
    IN  IF Len(parts) # 2
        THEN Threw("Error", <<num, "is not a valid decimal number">>)
        ELSE LET big == BigIntOfString(parts[1] \o parts[2])
             IN  IF big.threw THEN big
                 ELSE Returned(DecimalNumber(big.value, Len(parts[1])))

\* toDecimalNumber that only asks for at least two parts
toDecimalNumber_atLeastTwo(x) ==
    LET num   == argToString(x)
        parts == split(num, ".")
    IN  IF Len(parts) < 2
        THEN Threw("Error", <<num, "is not a valid decimal number">>)
        ELSE LET big == BigIntOfString(parts[1] \o parts[2])
             IN  IF big.threw THEN big
                 ELSE Returned(DecimalNumber(big.value, Len(parts[2])))

toDecimalNumber(x) ==
    LET num   == argToString(x)
        parts == split(num, ".")
    IN  IF Len(parts) # 2
        THEN Threw("Error", <<num, "is not a valid decimal number">>)
        ELSE LET big == BigIntOfString(parts[1] \o parts[2])
             IN  IF big.threw THEN big
                 ELSE Returned(DecimalNumber(big.value, Len(parts[2])))

\* the instances after a call with outcome r: a call that returns has
\* constructed its result with new DecimalNumber(...), one that throws has
\* constructed nothing
Allocated(h, r) == IF r.threw THEN h ELSE Append(h, r.value)

(***************************************************************************)
(* SpecArith: two operands, one arithmetic call on them.                   *)
(***************************************************************************)
Operands == [val : (-MaxVal)..MaxVal, scale : 0..MaxScale]

InitArith ==
    /\ a \in Operands
    /\ b \in Operands
    /\ heap = <<a, b>>
    /\ arg = None
    /\ arg2 = None
    /\ res = None
    /\ out = None
    /\ calls = <<>>

\* decimalAdd that accumulates into its first operand and returns it
DecimalAdd_inPlace ==
    /\ a # None /\ b # None /\ res = None
    /\ a' = decimalAdd(a, b)
    /\ res' = Returned(decimalAdd(a, b))
    /\ heap' = [heap EXCEPT ![Len(heap) - 1] = decimalAdd(a, b)]
    /\ calls' = Append(calls, "decimalAdd")
    /\ UNCHANGED <<arg, arg2, b, out>>

DecimalAdd ==
    /\ a # None /\ b # None /\ res = None
    /\ res' = Returned(decimalAdd(a, b))
    /\ heap' = Append(heap, decimalAdd(a, b))
    /\ calls' = Append(calls, "decimalAdd")
    /\ UNCHANGED <<arg, arg2, a, b, out>>

DecimalSubtract ==
    /\ a # None /\ b # None /\ res = None
    /\ res' = Returned(decimalSubtract(a, b))
    /\ heap' = Append(heap, decimalSubtract(a, b))
    /\ calls' = Append(calls, "decimalSubtract")
    /\ UNCHANGED <<arg, arg2, a, b, out>>

DecimalMultiply ==
    /\ a # None /\ b # None /\ res = None
    /\ res' = Returned(decimalMultiply(a, b))
    /\ heap' = Append(heap, decimalMultiply(a, b))
    /\ calls' = Append(calls, "decimalMultiply")
    /\ UNCHANGED <<arg, arg2, a, b, out>>

NextArith == DecimalAdd \/ DecimalSubtract \/ DecimalMultiply

SpecArith == InitArith /\ [][NextArith]_vars

(***************************************************************************)
(* SpecFmt: one DecimalNumber, formatted.                                  *)
(***************************************************************************)
Receivers == [val : (-MaxFmtVal)..MaxFmtVal, scale : 0..MaxFmtScale]

InitFmt ==
    /\ a \in Receivers
    /\ heap = <<a>>
    /\ b = None
    /\ arg = None
    /\ arg2 = None
    /\ res = None
    /\ out = None
    /\ calls = <<>>

\* a.toString()
ToString ==
    /\ a # None /\ b = None /\ out = None
    /\ out' = toString(a)
    /\ calls' = Append(calls, "toString")
    /\ UNCHANGED <<arg, arg2, a, b, res, heap>>

NextFmt == ToString

SpecFmt == InitFmt /\ [][NextFmt]_vars

(***************************************************************************)
(* SpecParse: one argument, parsed, and the result formatted.              *)
(***************************************************************************)
Alphabet == {"0", "1", "2", "-", ".", " ", "a", "x"}

RECURSIVE TextsOfLen(_)
TextsOfLen(n) ==
    IF n = 0 THEN {<<>>}
    ELSE {Append(t, c) : t \in TextsOfLen(n - 1), c \in Alphabet}

Texts == UNION {TextsOfLen(n) : n \in 0..MaxLen}

\* the texts the documentation and the tests use
Examples ==
    { <<"1", "2", ".", "3", "4">>,
      <<"5", ".", "6", "7", "8">>,
      <<"-", "5", ".", "6", "7">>,
      <<"0", "1", "2", ".", "3", "4", "0">>,
      <<"0", ".", "0", "5", "0">>,
      <<"0", ".", "0", "0">>,
      <<"-", "0", ".", "0">>,
      <<".", "1", "2", "3">>,
      <<"1", "2", ".">>,
      <<"1", "2", "3">>,
      <<"-", "4", "5", "6">>,
      <<"1", "2", ".", "3", "4", ".", "5", "6">>,
      <<" ", "1", "2", ".", "3", "4", " ">>,
      <<"a", "b", "c">>,
      <<"1", "2", "a", ".", "3", "4">>,
      <<>> }

Args ==
    {StringArg(t) : t \in Texts \cup Examples}
        \cup {NumberArg(n) : n \in ((-MaxNum)..MaxNum) \cup {789}}
        \cup {NonFiniteArg(k) : k \in {"NaN", "Infinity", "-Infinity"}}

InitParse ==
    /\ arg \in Args
    /\ heap = <<>>
    /\ arg2 = None
    /\ a = None
    /\ b = None
    /\ res = None
    /\ out = None
    /\ calls = <<>>

\* res = toDecimalNumber(arg)
ToDecimalNumber ==
    /\ calls = <<>> /\ a = None
    /\ res' = toDecimalNumber(arg)
    /\ heap' = Allocated(heap, toDecimalNumber(arg))
    /\ calls' = Append(calls, "toDecimalNumber")
    /\ UNCHANGED <<arg, arg2, a, b, out>>

\* toString of the DecimalNumber the last call returned
ResultToString ==
    /\ res # None /\ out = None
    /\ ~res.threw
    /\ out' = toString(res.value)
    /\ calls' = Append(calls, "toString")
    /\ UNCHANGED <<arg, arg2, a, b, res, heap>>

NextParse == ToDecimalNumber \/ ResultToString

SpecParse == InitParse /\ [][NextParse]_vars

(***************************************************************************)
(* SpecScenario: a = toDecimalNumber(arg), b = toDecimalNumber(arg2), one  *)
(* arithmetic call on a and b, and the result formatted.                   *)
(***************************************************************************)
InitScenario ==
    /\ arg \in {StringArg(t) : t \in Examples}
    /\ heap = <<>>
    /\ arg2 \in {StringArg(t) : t \in Examples}
    /\ a = None
    /\ b = None
    /\ res = None
    /\ out = None
    /\ calls = <<>>

\* a = toDecimalNumber(arg); an exception ends the scenario
ParseA ==
    /\ calls = <<>>
    /\ LET r == toDecimalNumber(arg)
       IN  /\ IF r.threw THEN res' = r /\ a' = a
              ELSE a' = r.value /\ res' = res
           /\ heap' = Allocated(heap, r)
    /\ calls' = Append(calls, "toDecimalNumber")
    /\ UNCHANGED <<arg, arg2, b, out>>

\* b = toDecimalNumber(arg2); an exception ends the scenario
ParseB ==
    /\ calls = <<"toDecimalNumber">> /\ a # None
    /\ LET r == toDecimalNumber(arg2)
       IN  /\ IF r.threw THEN res' = r /\ b' = b
              ELSE b' = r.value /\ res' = res
           /\ heap' = Allocated(heap, r)
    /\ calls' = Append(calls, "toDecimalNumber")
    /\ UNCHANGED <<arg, arg2, a, out>>

NextScenario ==
    ParseA \/ ParseB \/ DecimalAdd \/ DecimalSubtract \/ DecimalMultiply \/ ResultToString

SpecScenario == InitScenario /\ [][NextScenario]_vars

(***************************************************************************)
(* Claims about the arithmetic (SpecArith).                                *)
(***************************************************************************)
Max(m, n) == IF m > n THEN m ELSE n

LastCall == IF calls = <<>> THEN "none" ELSE calls[Len(calls)]

\* C1: for operands a and b with non-negative scales decimalAdd(a, b) returns
\* scale s = max(a.scale, b.scale) and
\* val = a.val * 10^(s - a.scale) + b.val * 10^(s - b.scale).
C1_AddAligned ==
    (LastCall = "decimalAdd" /\ a.scale >= 0 /\ b.scale >= 0) =>
        LET s == Max(a.scale, b.scale)
        IN  /\ ~res.threw
            /\ res.value.scale = s
            /\ res.value.val = a.val * Pow10(s - a.scale) + b.val * Pow10(s - b.scale)

\* C1 happens: an addition whose second operand has the larger scale, so that
\* the first one was multiplied by a power of ten
C1_Witness ==
    /\ LastCall = "decimalAdd"
    /\ a.scale < b.scale
    /\ a.val # 0 /\ b.val # 0
    /\ res.value.val # a.val + b.val

ChainAlphabet == {"0", "5", "."}

RECURSIVE ChainTextsOfLen(_)
ChainTextsOfLen(n) ==
    IF n = 0 THEN {<<>>}
    ELSE {Append(t, c) : t \in ChainTextsOfLen(n - 1), c \in ChainAlphabet}

ChainTexts == UNION {ChainTextsOfLen(n) : n \in 0..MaxChainLen}

InitChain ==
    /\ arg \in {StringArg(t) : t \in ChainTexts}
    /\ arg2 \in {StringArg(t) : t \in ChainTexts}
    /\ heap = <<>>
    /\ a = None
    /\ b = None
    /\ res = None
    /\ out = None
    /\ calls = <<>>

\* the calls a chain continues with: the operation, its operands and the
\* entry the call leaves in calls
Steps ==
    { [op |-> "decimalAdd", left |-> "res", right |-> "a", name |-> "decimalAdd(res, a)"],
      [op |-> "decimalAdd", left |-> "res", right |-> "b", name |-> "decimalAdd(res, b)"],
      [op |-> "decimalAdd", left |-> "a", right |-> "res", name |-> "decimalAdd(a, res)"],
      [op |-> "decimalAdd", left |-> "b", right |-> "res", name |-> "decimalAdd(b, res)"],
      [op |-> "decimalSubtract", left |-> "res", right |-> "a", name |-> "decimalSubtract(res, a)"],
      [op |-> "decimalSubtract", left |-> "res", right |-> "b", name |-> "decimalSubtract(res, b)"],
      [op |-> "decimalSubtract", left |-> "a", right |-> "res", name |-> "decimalSubtract(a, res)"],
      [op |-> "decimalSubtract", left |-> "b", right |-> "res", name |-> "decimalSubtract(b, res)"],
      [op |-> "decimalMultiply", left |-> "res", right |-> "a", name |-> "decimalMultiply(res, a)"],
      [op |-> "decimalMultiply", left |-> "res", right |-> "b", name |-> "decimalMultiply(res, b)"],
      [op |-> "decimalMultiply", left |-> "a", right |-> "res", name |-> "decimalMultiply(a, res)"],
      [op |-> "decimalMultiply", left |-> "b", right |-> "res", name |-> "decimalMultiply(b, res)"] }

IsArithmeticCall(c) == c # "toDecimalNumber" /\ c # "toString"

\* the arithmetic calls completed so far, in order
ArithmeticCalls == SelectSeq(calls, IsArithmeticCall)

\* the DecimalNumber an operand of a step is bound to
Operand(who) == IF who = "a" THEN a ELSE IF who = "b" THEN b ELSE res.value

Apply(op, x, y) ==
    IF op = "decimalAdd" THEN decimalAdd(x, y)
    ELSE IF op = "decimalSubtract" THEN decimalSubtract(x, y)
    ELSE decimalMultiply(x, y)

\* res = op(left, right) for a step st of Steps
Continue(st) ==
    /\ a # None /\ b # None /\ res # None
    /\ ~res.threw
    /\ Len(ArithmeticCalls) < MaxOps
    /\ res' = Returned(Apply(st.op, Operand(st.left), Operand(st.right)))
    /\ heap' = Append(heap, Apply(st.op, Operand(st.left), Operand(st.right)))
    /\ calls' = Append(calls, st.name)
    /\ UNCHANGED <<arg, arg2, a, b, out>>

AddNext == \E st \in Steps : st.op = "decimalAdd" /\ Continue(st)

SubtractNext == \E st \in Steps : st.op = "decimalSubtract" /\ Continue(st)

MultiplyNext == \E st \in Steps : st.op = "decimalMultiply" /\ Continue(st)

NextChain ==
    \/ ParseA \/ ParseB
    \/ DecimalAdd \/ DecimalSubtract \/ DecimalMultiply
    \/ AddNext \/ SubtractNext \/ MultiplyNext
    \/ ResultToString

SpecChain == InitChain /\ [][NextChain]_vars

(***************************************************************************)
(* SpecNew: new DecimalNumber(val, scale) called by a client directly.     *)
(* Here a JavaScript value carries its kind: an integer (of either numeric *)
(* type), a number with a fractional part, NaN or Infinity.                *)
(***************************************************************************)
IntegerValue(n) == [kind |-> "integer", n |-> n]

\* 12.34, 2.5, NaN and Infinity, the values the tests pass for val or scale
NonIntegerValues == {[kind |-> k, n |-> 0] : k \in {"fraction", "NaN", "Infinity"}}

InitNew ==
    /\ arg \in {IntegerValue(n) : n \in (-MaxVal)..MaxVal} \cup NonIntegerValues
    /\ arg2 \in {IntegerValue(n) : n \in (-MaxScale)..MaxScale} \cup NonIntegerValues
    /\ heap = <<>>
    /\ a = None
    /\ b = None
    /\ res = None
    /\ out = None
    /\ calls = <<>>

\* res = new DecimalNumber(arg, arg2)
New ==
    /\ calls = <<>>
    /\ res' = Returned(DecimalNumber(arg, arg2))
    /\ heap' = Append(heap, DecimalNumber(arg, arg2))
    /\ calls' = Append(calls, "new DecimalNumber")
    /\ UNCHANGED <<arg, arg2, a, b, out>>

NextNew == New

SpecNew == InitNew /\ [][NextNew]_vars

(***************************************************************************)
(* Claims about the documented scenario (SpecScenario).                    *)
(***************************************************************************)
Text1234 == StringArg(<<"1", "2", ".", "3", "4">>)

Text5678 == StringArg(<<"5", ".", "6", "7", "8">>)

MultiplyScenario ==
    /\ arg = Text1234 /\ arg2 = Text5678
    /\ Len(calls) >= 3 /\ calls[3] = "decimalMultiply"

IsDigit(c) == c \in {"0", "1", "2", "3", "4", "5", "6", "7", "8", "9"}

DigitVal(c) ==
    CASE c = "0" -> 0 [] c = "1" -> 1 [] c = "2" -> 2 [] c = "3" -> 3 [] c = "4" -> 4
      [] c = "5" -> 5 [] c = "6" -> 6 [] c = "7" -> 7 [] c = "8" -> 8 [] c = "9" -> 9

RECURSIVE Denoted(_)
\* the natural number a run of decimal digits denotes, 0 for the empty run
Denoted(ds) == IF ds = <<>> THEN 0 ELSE 10 * Denoted(SubSeq(ds, 1, Len(ds) - 1)) + DigitVal(ds[Len(ds)])

HasSign(t) == t # <<>> /\ t[1] = "-"

Unsigned(t) == IF HasSign(t) THEN Tail(t) ELSE t

Points(t) == {i \in 1..Len(t) : t[i] = "."}

PointAt(t) == CHOOSE i \in Points(t) : TRUE

\* ["-"] I "." F with I and F possibly empty runs of decimal digits
IsPointForm(t) ==
    /\ Cardinality(Points(t)) = 1
    /\ \A i \in 1..Len(Unsigned(t)) : Unsigned(t)[i] = "." \/ IsDigit(Unsigned(t)[i])

IntegerDigits(t) == SubSeq(Unsigned(t), 1, PointAt(Unsigned(t)) - 1)

FractionDigits(t) == SubSeq(Unsigned(t), PointAt(Unsigned(t)) + 1, Len(Unsigned(t)))

SignedValue(t, ds) == IF HasSign(t) THEN -Denoted(ds) ELSE Denoted(ds)

\* the first call was toDecimalNumber(arg) and it has completed
Parsed == calls # <<>> /\ calls[1] = "toDecimalNumber"

ParsedText == Parsed /\ arg.type = "string"

\* C5 as stated: for every text ["-"] I "." F toDecimalNumber returns
\* scale = length of F and val = the signed integer that sign, I and F denote.
C5_Original ==
    (ParsedText /\ IsPointForm(arg.s)) =>
        res = Returned(DecimalNumber(SignedValue(arg.s, IntegerDigits(arg.s) \o FractionDigits(arg.s)),
                                     Len(FractionDigits(arg.s))))

\* C5 as amended: the same for every such text but "-." (a sign with I and F
\* both empty), for which toDecimalNumber throws a SyntaxError.
C5_PointForm ==
    (ParsedText /\ IsPointForm(arg.s)) =>
        IF arg.s = <<"-", ".">>
        THEN res.threw /\ res.name = "SyntaxError"
        ELSE res = Returned(DecimalNumber(SignedValue(arg.s, IntegerDigits(arg.s) \o FractionDigits(arg.s)),
                                          Len(FractionDigits(arg.s))))

\* C5 happens: a signed text with a leading-only point and a fraction that
\* ends in a zero was parsed to a negative val
C5_Witness ==
    /\ ParsedText /\ IsPointForm(arg.s) /\ HasSign(arg.s)
    /\ IntegerDigits(arg.s) = <<>>
    /\ Len(FractionDigits(arg.s)) >= 2
    /\ arg.s[Len(arg.s)] = "0"
    /\ ~res.threw /\ res.value.val < 0 /\ res.value.scale = Len(FractionDigits(arg.s))

\* an optionally signed non-empty run of decimal digits
IsIntegerText(t) ==
    /\ Unsigned(t) # <<>>
    /\ \A i \in 1..Len(Unsigned(t)) : IsDigit(Unsigned(t)[i])

\* C6: for every input without a decimal point that is an optionally signed
\* non-empty run of digits (a text or an integer number) toDecimalNumber
\* returns val = that integer and scale = 0.
C6_IntegerInput ==
    /\ (ParsedText /\ IsIntegerText(arg.s)) =>
           res = Returned(DecimalNumber(SignedValue(arg.s, Unsigned(arg.s)), 0))
    /\ (Parsed /\ arg.type = "number" /\ arg.kind = "finite") =>
           res = Returned(DecimalNumber(arg.n, 0))

\* C9: for every text t in canonical form (a sign only if negative, an integer
\* part without superfluous leading zeros, and no point or a point followed by
\* at least one digit) toDecimalNumber(t).toString() is t.
IsCanonical(t) ==
    LET u  == Unsigned(t)
        ip == IF Points(u) = {} THEN u ELSE IntegerDigits(t)
        fp == IF Points(u) = {} THEN <<>> ELSE FractionDigits(t)
    IN  /\ IsIntegerText(t) \/ (IsPointForm(t) /\ fp # <<>>)
        /\ ip # <<>>
        /\ Len(ip) > 1 => ip[1] # "0"
        /\ HasSign(t) => Denoted(ip \o fp) # 0

C9_RoundTrip ==
    (ParsedText /\ IsCanonical(arg.s)) =>
        /\ ~res.threw
        /\ Len(calls) = 2 => out = arg.s

\* more than one decimal point
ManyPoints(t) == Cardinality(Points(t)) > 1

\* C10: toDecimalNumber of a text with more than one decimal point throws an
\* error and returns no DecimalNumber.
C10_ManyPointsThrow ==
    (ParsedText /\ ManyPoints(arg.s)) =>
        /\ res.threw
        /\ res.name = "Error"
        /\ res.message = <<arg.s, "is not a valid decimal number">>

\* C10 happens: "12.34.56" was passed and the call threw
C10_Witness ==
    /\ ParsedText
    /\ arg.s = <<"1", "2", ".", "3", "4", ".", "5", "6">>
    /\ res.threw

(***************************************************************************)
(* Claims about toString (SpecFmt).                                        *)
(***************************************************************************)
Formatted == calls = <<"toString">>

\* C7: for every DecimalNumber with scale = 0 toString returns the signed
\* digit string of val, without a decimal point.
C7_ScaleZero ==
    (Formatted /\ a.scale = 0) =>
        /\ out = BigIntToString(a.val)
        /\ Points(out) = {}

\* C8: for every DecimalNumber with scale >= 1 toString returns
\* ["-" if val < 0] integerPart "." fractionalPart, where fractionalPart has
\* exactly scale digits, integerPart is the leading digits of |val| that
\* remain, or "0" when none does, and the text denotes val / 10^scale.
C8_ScalePositive ==
    (Formatted /\ a.scale >= 1) =>
        LET mag == IF a.val < 0 THEN -a.val ELSE a.val
        IN  /\ HasSign(out) <=> a.val < 0
            /\ IsPointForm(out)
            /\ Len(FractionDigits(out)) = a.scale
            /\ IntegerDigits(out) # <<>>
            /\ IntegerDigits(out) = (IF mag < Pow10(a.scale) THEN <<"0">>
                                     ELSE NatToString(mag \div Pow10(a.scale)))
            /\ Denoted(IntegerDigits(out)) = mag \div Pow10(a.scale)
            /\ Denoted(FractionDigits(out)) = mag % Pow10(a.scale)
            /\ SignedValue(out, IntegerDigits(out) \o FractionDigits(out)) = a.val

\* C8 happens: a negative val with fewer digits than the scale was formatted,
\* so the text was padded and got the integer part "0"
C8_Witness ==
    /\ Formatted /\ a.scale >= 2 /\ a.val < 0 /\ -a.val < 10
    /\ IntegerDigits(out) = <<"0">>
    /\ Len(out) = a.scale + 3

(***************************************************************************)
(* Claims about the inputs toDecimalNumber rejects or tolerates            *)
(* (SpecParse).                                                            *)
(***************************************************************************)
\* a character other than a decimal digit, "-" and "."
HasForeignChar(t) == \E i \in 1..Len(t) : ~IsDigit(t[i]) /\ t[i] # "-" /\ t[i] # "."

\* C11: toDecimalNumber of a text with a character other than decimal digits,
\* one leading "-" and one "." throws the error "<input> is not a valid
\* decimal number" and returns no DecimalNumber.
C11_ForeignCharThrows ==
    (ParsedText /\ HasForeignChar(arg.s)) =>
        /\ res.threw
        /\ res.name = "Error"
        /\ res.message = <<arg.s, "is not a valid decimal number">>

\* C12: toDecimalNumber("") returns val = 0, scale = 0.
C12_EmptyText ==
    (ParsedText /\ arg.s = <<>>) => res = Returned(DecimalNumber(0, 0))

\* leading and trailing spaces removed
Trimmed(t) == trimEnd(trimStart(t))

\* C13: for every valid decimal text t with spaces around it toDecimalNumber
\* returns the (val, scale) of t: the spaces are not part of the integer
\* digits nor counted in the scale; " 12.34 " gives val 1234, scale 2.
C13_WhitespaceTrimmed ==
    /\ (ParsedText /\ Trimmed(arg.s) # arg.s /\ IsPointForm(Trimmed(arg.s))
            /\ Trimmed(arg.s) # <<"-", ".">>) =>
           res = Returned(DecimalNumber(
                     SignedValue(Trimmed(arg.s),
                                 IntegerDigits(Trimmed(arg.s)) \o FractionDigits(Trimmed(arg.s))),
                     Len(FractionDigits(Trimmed(arg.s)))))
    /\ (ParsedText /\ arg.s = <<" ", "1", "2", ".", "3", "4", " ">>) =>
           res = Returned(DecimalNumber(1234, 2))

\* a zero literal with a minus sign: "-", then digits that are all zeros,
\* with or without a decimal point, and at least one digit
IsMinusZero(t) ==
    /\ HasSign(t)
    /\ IsIntegerText(t) \/ IsPointForm(t)
    /\ \E i \in 1..Len(t) : IsDigit(t[i])
    /\ \A i \in 1..Len(t) : IsDigit(t[i]) => t[i] = "0"

ScaleOfText(t) == IF Points(t) = {} THEN 0 ELSE Len(FractionDigits(t))

\* C14: parsing a zero literal with a minus sign yields val = 0 with the
\* scale of the literal, and the text of a DecimalNumber with val = 0 does
\* not start with "-".
C14_NoNegativeZero ==
    /\ (ParsedText /\ IsMinusZero(arg.s)) =>
           res = Returned(DecimalNumber(0, ScaleOfText(arg.s)))
    /\ (ParsedText /\ Len(calls) = 2 /\ res.value.val = 0) => out[1] # "-"

\* C18: toDecimalNumber of NaN, Infinity or -Infinity throws the error
\* "<input> is not a number", which is not the malformed-decimal error.
C18_NonFiniteRejected ==
    (Parsed /\ arg.type = "number" /\ arg.kind # "finite") =>
        /\ res.threw
        /\ res.message = <<argToString(arg), "is not a number">>

(***************************************************************************)
(* Algebraic claims about the arithmetic (SpecArith).                      *)
(***************************************************************************)
\* C15: decimalAdd(a, b) and decimalAdd(b, a) have the same val and the same
\* scale, and so have decimalMultiply(a, b) and decimalMultiply(b, a).
C15_Commutative ==
    /\ LastCall = "decimalAdd" => res = Returned(decimalAdd(b, a))
    /\ LastCall = "decimalMultiply" => res = Returned(decimalMultiply(b, a))

\* C15 happens: two different operands of equal scale were added
C15_Witness ==
    /\ LastCall = "decimalAdd"
    /\ a.scale = b.scale /\ a.scale > 0
    /\ a.val # b.val /\ a.val # 0 /\ b.val # 0
    /\ ~res.threw

(***************************************************************************)
(* Claims about chains of operations (SpecChain).                          *)
(***************************************************************************)
\* C16: decimalSubtract(decimalAdd(a, b), b) has scale
\* s = max(a.scale, b.scale) and val = a.val * 10^(s - a.scale): it is a,
\* aligned to s.
C16_SubtractInverse ==
    (ArithmeticCalls = <<"decimalAdd", "decimalSubtract(res, b)">>
        /\ a.scale >= 0 /\ b.scale >= 0) =>
        LET s == Max(a.scale, b.scale)
        IN  res = Returned(DecimalNumber(a.val * Pow10(s - a.scale), s))

\* C16 happens: b with the larger scale was added to a and subtracted again,
\* and a came back multiplied by a power of ten
C16_Witness ==
    /\ ArithmeticCalls = <<"decimalAdd", "decimalSubtract(res, b)">>
    /\ a.scale < b.scale
    /\ a.val # 0 /\ b.val # 0
    /\ res.value.val = a.val * Pow10(b.scale - a.scale)
    /\ res.value.val # a.val

\* the call a step completes, "none" for a stuttering step
Completed == IF calls' = calls THEN "none" ELSE calls'[Len(calls')]

\* C19: decimalAdd, decimalSubtract, decimalMultiply and toString leave
\* every DecimalNumber constructed before the call as it was, their operands
\* included, and each arithmetic call returns a new instance.
C19_OperandsUnchanged ==
    [][(Completed # "none" /\ Completed # "toDecimalNumber") =>
          /\ a' = a /\ b' = b
          /\ \A i \in 1..Len(heap) : i <= Len(heap') /\ heap'[i] = heap[i]
          /\ IF Completed = "toString"
             THEN heap' = heap /\ res' = res
             ELSE /\ Len(heap') = Len(heap) + 1
                  /\ res' = Returned(heap'[Len(heap')])]_vars

\* C19 happens: after two arithmetic calls and a toString the operands are
\* the first two instances, as parsed, and each call added one instance
C19_Witness ==
    /\ Len(ArithmeticCalls) = 2
    /\ \E i \in 1..Len(calls) : calls[i] = "toString"
    /\ Len(heap) = 4
    /\ heap[1] = a /\ heap[2] = b
    /\ heap[4] = res.value
    /\ heap[3] # a /\ heap[4] # heap[3]

\* the step of Steps that left the entry c in calls
StepOf(c) == CHOOSE st \in Steps : st.name = c

\* the operands of the k-th arithmetic call: a and b for the first, the
\* previous result and a or b for a later one
OperandAt(k, who) == IF who = "a" THEN heap[1] ELSE IF who = "b" THEN heap[2] ELSE heap[k + 1]

LeftAt(k) == IF k = 1 THEN heap[1] ELSE OperandAt(k, StepOf(ArithmeticCalls[k]).left)

RightAt(k) == IF k = 1 THEN heap[2] ELSE OperandAt(k, StepOf(ArithmeticCalls[k]).right)

OpAt(k) == IF k = 1 THEN ArithmeticCalls[1] ELSE StepOf(ArithmeticCalls[k]).op

\* C20: every DecimalNumber reached from toDecimalNumber results by
\* decimalAdd, decimalSubtract and decimalMultiply has scale >= 0, the scale
\* of a result is at least the scale of each of its operands, the exponent of
\* an alignment is never negative, and no arithmetic call throws.
C20_ScaleNeverDecreases ==
    /\ \A i \in 1..Len(heap) : heap[i].scale >= 0
    /\ Len(heap) = (IF a = None THEN 0 ELSE 1) + (IF b = None THEN 0 ELSE 1) + Len(ArithmeticCalls)
    /\ \A k \in 1..Len(ArithmeticCalls) :
          /\ heap[k + 2].scale >= LeftAt(k).scale
          /\ heap[k + 2].scale >= RightAt(k).scale
          /\ OpAt(k) = "decimalAdd" => decimalAddExponent(LeftAt(k), RightAt(k)) >= 0
          /\ OpAt(k) = "decimalSubtract" => decimalSubtractExponent(LeftAt(k), RightAt(k)) >= 0
    /\ ArithmeticCalls # <<>> => ~res.threw

\* C20 happens: a chain that ended with a subtraction that had to align an
\* operand, and whose result has a larger scale than both of the parsed
\* numbers the chain started from
C20_Witness ==
    /\ Len(ArithmeticCalls) >= 2
    /\ OpAt(Len(ArithmeticCalls)) = "decimalSubtract"
    /\ decimalSubtractExponent(LeftAt(Len(ArithmeticCalls)), RightAt(Len(ArithmeticCalls))) > 0
    /\ res.value.scale > a.scale /\ res.value.scale > b.scale

(***************************************************************************)
(* Claims about the constructor (SpecNew).                                 *)
(***************************************************************************)
\* C17: new DecimalNumber(val, scale) throws when scale is negative and when
\* val or scale is not an integer, so that no DecimalNumber with a negative
\* scale is ever constructed.
C17_ConstructorValidates ==
    /\ (calls = <<"new DecimalNumber">>
          /\ (arg.kind # "integer" \/ arg2.kind # "integer" \/ arg2.n < 0)) =>
           res.threw
    /\ \A i \in 1..Len(heap) : heap[i].scale.kind = "integer" /\ heap[i].scale.n >= 0

(***************************************************************************)
(* SpecFmtParse: one DecimalNumber, formatted, and the text parsed again.  *)
(***************************************************************************)
\* res = toDecimalNumber(a.toString())
ParseText ==
    /\ calls = <<"toString">>
    /\ arg' = StringArg(out)
    /\ res' = toDecimalNumber(StringArg(out))
    /\ heap' = Allocated(heap, toDecimalNumber(StringArg(out)))
    /\ calls' = Append(calls, "toDecimalNumber")
    /\ UNCHANGED <<arg2, a, b, out>>

NextFmtParse == ToString \/ ParseText

SpecFmtParse == InitFmt /\ [][NextFmtParse]_vars

\* C21: for every DecimalNumber x with scale >= 1 and any val
\* toDecimalNumber(x.toString()) has the val and the scale of x.
C21_ParseOfFormat ==
    (calls = <<"toString", "toDecimalNumber">> /\ a.scale >= 1) =>
        /\ ~res.threw
        /\ res.value.val = a.val
        /\ res.value.scale = a.scale

\* C21 happens: a negative val with fewer digits than its scale was formatted
\* with padding zeros and a sign, and the text was parsed
C21_Witness ==
    /\ calls = <<"toString", "toDecimalNumber">>
    /\ a.scale >= 2 /\ a.val < 0 /\ -a.val < 10
    /\ out[1] = "-" /\ out[2] = "0" /\ out[3] = "."
    /\ arg = StringArg(out)
    /\ res = Returned(a)

(***************************************************************************)
(* SpecTriple: three operands, heap[1] = a, heap[2] = b and heap[3], and a *)
(* client that evaluates a compound expression call by call, each call on  *)
(* two of the instances constructed so far.  The expressions are the two   *)
(* sides of the distributive law and of the two associative laws.          *)
(***************************************************************************)
TripleOperands == [val : (-MaxTripleVal)..MaxTripleVal, scale : 0..MaxTripleScale]

InitTriple ==
    /\ a \in TripleOperands
    /\ b \in TripleOperands
    /\ heap \in {<<a, b, c>> : c \in TripleOperands}
    /\ arg = None
    /\ arg2 = None
    /\ res = None
    /\ out = None
    /\ calls = <<>>

\* a call op(heap[left], heap[right]) and the entry it leaves in calls
Call(op, left, right, name) == [op |-> op, left |-> left, right |-> right, name |-> name]

\* decimalMultiply(a, decimalAdd(b, c)), then
\* decimalAdd(decimalMultiply(a, b), decimalMultiply(a, c))
Distributive ==
    << Call("decimalAdd", 2, 3, "decimalAdd(#2, #3)"),
       Call("decimalMultiply", 1, 4, "decimalMultiply(#1, #4)"),
       Call("decimalMultiply", 1, 2, "decimalMultiply(#1, #2)"),
       Call("decimalMultiply", 1, 3, "decimalMultiply(#1, #3)"),
       Call("decimalAdd", 6, 7, "decimalAdd(#6, #7)") >>

\* decimalAdd(decimalAdd(a, b), c), then decimalAdd(a, decimalAdd(b, c))
AddAssociative ==
    << Call("decimalAdd", 1, 2, "decimalAdd(#1, #2)"),
       Call("decimalAdd", 4, 3, "decimalAdd(#4, #3)"),
       Call("decimalAdd", 2, 3, "decimalAdd(#2, #3)"),
       Call("decimalAdd", 1, 6, "decimalAdd(#1, #6)") >>

\* decimalMultiply(decimalMultiply(a, b), c), then
\* decimalMultiply(a, decimalMultiply(b, c))
MultiplyAssociative ==
    << Call("decimalMultiply", 1, 2, "decimalMultiply(#1, #2)"),
       Call("decimalMultiply", 4, 3, "decimalMultiply(#4, #3)"),
       Call("decimalMultiply", 2, 3, "decimalMultiply(#2, #3)"),
       Call("decimalMultiply", 1, 6, "decimalMultiply(#1, #6)") >>

Expressions == {Distributive, AddAssociative, MultiplyAssociative}

\* the calls made so far are the first calls of the expression e
Evaluating(e) ==
    /\ Len(calls) <= Len(e)
    /\ \A i \in 1..Len(calls) : calls[i] = e[i].name

\* the calls that continue an expression under evaluation
NextCalls ==
    {e[Len(calls) + 1] : e \in {x \in Expressions : Evaluating(x) /\ Len(calls) < Len(x)}}

\* the call c is made: its result is a new instance
Evaluate(c) ==
    /\ res' = Returned(Apply(c.op, heap[c.left], heap[c.right]))
    /\ heap' = Append(heap, Apply(c.op, heap[c.left], heap[c.right]))
    /\ calls' = Append(calls, c.name)
    /\ UNCHANGED <<arg, arg2, a, b, out>>

TripleAdd == \E c \in NextCalls : c.op = "decimalAdd" /\ Evaluate(c)

TripleMultiply == \E c \in NextCalls : c.op = "decimalMultiply" /\ Evaluate(c)

NextTriple == TripleAdd \/ TripleMultiply

SpecTriple == InitTriple /\ [][NextTriple]_vars

\* the expression e has been evaluated completely
Evaluated(e) == Len(calls) = Len(e) /\ Evaluating(e)

\* C22: decimalMultiply(a, decimalAdd(b, c)) and
\* decimalAdd(decimalMultiply(a, b), decimalMultiply(a, c)) have the same val
\* and the same scale, a.scale + max(b.scale, c.scale).
C22_Distributive ==
    Evaluated(Distributive) =>
        /\ heap[5].val = heap[8].val
        /\ heap[5].scale = heap[8].scale
        /\ heap[8].scale = heap[1].scale + Max(heap[2].scale, heap[3].scale)
        /\ res = Returned(heap[8])

\* C22 happens: both sides were evaluated for b and c of different scales and
\* a product that is not zero
C22_Witness ==
    /\ Evaluated(Distributive)
    /\ heap[2].scale # heap[3].scale /\ heap[1].scale > 0
    /\ heap[1].val # 0 /\ heap[2].val # 0 /\ heap[3].val # 0
    /\ heap[5].val # 0
    /\ heap[5] = heap[8]

\* C23: decimalAdd(decimalAdd(a, b), c) equals decimalAdd(a, decimalAdd(b, c))
\* and decimalMultiply(decimalMultiply(a, b), c) equals
\* decimalMultiply(a, decimalMultiply(b, c)), in val and in scale.
C23_Associative ==
    /\ Evaluated(AddAssociative) =>
           heap[5].val = heap[7].val /\ heap[5].scale = heap[7].scale
    /\ Evaluated(MultiplyAssociative) =>
           heap[5].val = heap[7].val /\ heap[5].scale = heap[7].scale

\* C23 happens: both groupings of a sum of three operands of three different
\* scales were evaluated
C23_Witness ==
    /\ Evaluated(AddAssociative)
    /\ heap[1].scale > heap[2].scale /\ heap[2].scale > heap[3].scale
    /\ heap[1].val # 0 /\ heap[2].val # 0 /\ heap[3].val # 0
    /\ heap[5] = heap[7]
    /\ heap[4] # heap[6]

====
